---- MODULE Spec2Model ----
(***************************************************************************)
(* Model of the template smoketest of openshift-template-monitor:          *)
(* pkg/templates/smoketest.go (Smoketest.Run, createTemplateCheck,         *)
(* launchTemplateInstanceCheck, validateTemplateInstance and the three     *)
(* delete helpers).  One run of Smoketest.Run is one sequential goroutine; *)
(* every action below is one step of that goroutine between two calls of   *)
(* the cluster API client, or a step of its environment (the clock).       *)
(*                                                                         *)
(* The cluster API client is an interface (templateInterface,              *)
(* k8sInterface): every call may succeed or fail, and what a failed Create *)
(* returns next to its error is not fixed by the source (the generated     *)
(* REST client returns an empty object, the fake client returns nil), so   *)
(* both are outcomes of the call.                                          *)
(***************************************************************************)
EXTENDS Integers, Sequences, FiniteSets, TLC

VARIABLES
    pc,           \* position of the goroutine executing Run
    keepObjects,  \* Run's first argument (flag keep-objects)
    timeout,      \* Run's second argument (flag timeout), seconds
    now,          \* the wall clock, seconds
    objects,      \* names of the objects that exist on the cluster
    template,     \* Run's local `template`: name of the referenced object, or NilRef
    secret,       \* Run's local `secret`
    ti,           \* the local `ti`: [ref, labels]
    fetched,      \* launchTemplateInstanceCheck's local `template` (labels of the re-fetched template)
    watcher,      \* state of the watch subscription: none / open / stopped
    launchStart,  \* launchTemplateInstanceCheck's local `launchStart`
    deadline,     \* instant at which the channel of time.After becomes ready
    duration,     \* launchTemplateInstanceCheck's local `duration`
    ret,          \* the (duration, err) operands of the return statement Run executed
    result,       \* the (duration, err) pair Run's caller receives
    deferred,     \* Run's stack of deferred calls, last registered first
    log,          \* history: the calls issued to the cluster API client, in order
    consumed,     \* history: the event received by the step just taken, NoEvent otherwise
    wstate,       \* history: PENDING / READY / INSTANTIATE_FAILED / TIMED_OUT / UNEXPECTED
    readySeen,    \* history: a MODIFIED event carrying Ready=True has been received
    deleted,      \* history: the call of a delete helper made by the step just taken, NoDelete otherwise
    checked,      \* history: the call of validateTemplateInstance that ended in this run, NoCheck before
    monitor       \* cmd/monitor: the goroutine of runTemplateSmoketest, its locals and the gauges

vars == <<pc, keepObjects, timeout, now, objects, template, secret, ti, fetched,
          watcher, launchStart, deadline, duration, ret, result, deferred, log,
          consumed, wstate, readySeen, deleted, checked, monitor>>

----------------------------------------------------------------------------
(* Bounds *)

MaxTime == 1
MaxTimeout == 1
MaxConds == 2

----------------------------------------------------------------------------
(* Error values, smoketest.go:64-80 *)

NoErr == "nil"
ErrInitTest == "InitTestFailed"
ErrCreateTemplate == "CreateTemplateFailed"
ErrCreateInstance == "CreateTemplateInstanceFailed"
ErrLaunchInstanceFailed == "LaunchTemplateInstanceFailed"
ErrLaunchInstanceTimeout == "LaunchTemplateInstanceTimeout"
ErrInstanceInvalid == "ValidateTemplateInstanceFailed"
ErrUnknown == "Unknown"
ErrDelete == "DeleteFailed"

----------------------------------------------------------------------------
(* Object references and names *)

NilRef == "<nil>"
EmptyName == ""
TemplateName == "smoketest-template-ID"
SecretName == "smoketest-template-ID-secret"
InstanceName == "smoketest-template-ID-instance"
ConfigMapName == "test-configmap-ID"
JobName == "test-job-ID"

Kinds == {"template", "secret", "instance"}

(* What a failed Create hands back next to its error. *)
FailedCreateResults == {NilRef, EmptyName}

(* Go maps: a nil map and an empty map are different values for reflect.DeepEqual. *)
NilMap == [isNil |-> TRUE, kv |-> {}]
MakeMap(pairs) == [isNil |-> FALSE, kv |-> pairs]
DeepEqual(a, b) == a = b

LabelSets == {NilMap, MakeMap({}), MakeMap({<<"template", "smoketest">>})}

NilInstance == [ref |-> NilRef, labels |-> NilMap]

----------------------------------------------------------------------------
(* Watch events, k8s.io/apimachinery/pkg/watch as used in smoketest.go:334-366 *)

Modified == "MODIFIED"
EventTypes == {Modified, "ADDED", "DELETED", "ERROR", ""}

TemplateInstanceReady == "Ready"
TemplateInstanceInstantiateFailure == "InstantiateFailure"
ConditionTrue == "True"
(* The conditions followed: Ready in both states, InstantiateFailure=True, and one other type. *)
Conditions ==
    {[type |-> TemplateInstanceReady, status |-> ConditionTrue],
     [type |-> TemplateInstanceReady, status |-> "False"],
     [type |-> TemplateInstanceInstantiateFailure, status |-> ConditionTrue],
     [type |-> "Other", status |-> ConditionTrue]}

CondLists == UNION {[1..n -> Conditions] : n \in 0..MaxConds}

(* The object an event carries: the TemplateInstance as the server sees it. *)
NilObject == [isNil |-> TRUE, labels |-> NilMap, conditions |-> <<>>]
InstanceObjects == [isNil : {FALSE}, labels : LabelSets, conditions : CondLists]

(* The events followed: every status update, an ADDED event whose object is *)
(* Ready, and the other types without an object ("" is the zero Event read  *)
(* from a closed channel).                                                  *)
Events ==
    [type : {Modified}, object : InstanceObjects]
        \cup {[type |-> "ADDED",
               object |-> [isNil |-> FALSE, labels |-> NilMap,
                           conditions |-> <<[type |-> TemplateInstanceReady,
                                             status |-> ConditionTrue]>>]]}
        \cup [type : EventTypes \ {Modified, "ADDED"}, object : {NilObject}]

NoEvent == [type |-> "none", object |-> NilObject]

(* An event that is a status update whose object has a condition Ready=True. *)
CarriesReady(event) ==
    /\ event.type = "MODIFIED"
    /\ \E i \in 1..Len(event.object.conditions) :
        /\ event.object.conditions[i].type = "Ready"
        /\ event.object.conditions[i].status = "True"

(* An event that is a status update whose object has a condition InstantiateFailure=True. *)
CarriesFailure(event) ==
    /\ event.type = "MODIFIED"
    /\ \E i \in 1..Len(event.object.conditions) :
        /\ event.object.conditions[i].type = "InstantiateFailure"
        /\ event.object.conditions[i].status = "True"

(* smoketest.go:343-344 *)
IsReady(cond) ==
    cond.type = TemplateInstanceReady /\ cond.status = ConditionTrue

(* smoketest.go:353-355 *)
IsInstantiateFailure(cond) ==
    cond.type = TemplateInstanceInstantiateFailure /\ cond.status = ConditionTrue

HasReady(conds) == \E i \in 1..Len(conds) : IsReady(conds[i])
HasInstantiateFailure(conds) == \E i \in 1..Len(conds) : IsInstantiateFailure(conds[i])

(* Variant: the whole list is searched for Ready before InstantiateFailure is looked at. *)
ScanReadyFirst(conds) ==
    IF HasReady(conds) THEN "READY"
    ELSE IF HasInstantiateFailure(conds) THEN "INSTANTIATE_FAILED"
    ELSE "PENDING"

(* Variant: the condition type alone decides, the status is not looked at. *)
RECURSIVE ScanIgnoringStatus(_)
ScanIgnoringStatus(conds) ==
    IF conds = <<>> THEN "PENDING"
    ELSE IF Head(conds).type = TemplateInstanceReady THEN "READY"
    ELSE IF Head(conds).type = TemplateInstanceInstantiateFailure THEN "INSTANTIATE_FAILED"
    ELSE ScanIgnoringStatus(Tail(conds))

(* The loop over ti.Status.Conditions, smoketest.go:340-360: the first      *)
(* condition, in list order, that is Ready=True or InstantiateFailure=True  *)
(* decides; with none the select loop goes on.                              *)
RECURSIVE ScanConditions(_)
ScanConditions(conds) ==
    IF conds = <<>> THEN "PENDING"
    ELSE IF IsReady(Head(conds)) THEN "READY"
    ELSE IF IsInstantiateFailure(Head(conds)) THEN "INSTANTIATE_FAILED"
    ELSE ScanConditions(Tail(conds))

(* Variant: every event type is handled as a status update. *)
IsModifiedAny(type) == TRUE

(* Variant: the zero Event read from a closed channel is skipped like a *)
(* status update without conditions.                                    *)
IsModifiedOrClosed(type) == type \in {Modified, ""}

(* The switch on event.Type, smoketest.go:335-336 and 362. *)
IsModified(type) == type = Modified

(* Variant: the select has no timeout case. *)
TimeoutNever(n, d) == FALSE

(* The channel of time.After(timeout seconds), smoketest.go:328 and 331: *)
(* ready from the deadline on, and it stays ready until received from.   *)
TimeoutReady(n, d) == n >= d

----------------------------------------------------------------------------
(* Deferred calls of Run, smoketest.go:149-162 *)

(* Variant: deferred calls run in the order of registration. *)
PushDeferFifo(stack, call) == Append(stack, call)

(* defer: the call registered last runs first. *)
PushDefer(stack, call) == <<call>> \o stack

(* Variant: a failed deferred call abandons the calls still pending. *)
AfterDeferredAbort(stack, delErr) ==
    IF delErr # NoErr THEN <<>> ELSE Tail(stack)

(* Variant: a deferred call that failed is made again. *)
AfterDeferredRetry(stack, delErr) ==
    IF delErr # NoErr THEN stack ELSE Tail(stack)

(* The calls still to run once the top one returned; what it returned plays no role. *)
AfterDeferred(stack, delErr) == Tail(stack)

(* Variant: the error of a deferred delete replaces the error Run returns. *)
DeferredResultOverride(res, delErr) ==
    IF delErr # NoErr THEN [res EXCEPT !.err = ErrUnknown] ELSE res

(* Run's results are unnamed and the value a deferred call returns is        *)
(* discarded: the pair evaluated by the return statement reaches the caller. *)
DeferredResult(res, delErr) == res

(* Variant: the helper has no nil check. *)
DeleteIssuedAlways(ref) == TRUE

(* deleteSecret / deleteTemplate / deleteTemplateInstance, smoketest.go:222,  *)
(* 236, 251: a nil reference is a no-op, anything else issues the Delete call. *)
DeleteIssued(ref) == ref # NilRef

(* The deferred calls Run registers for the values launchTemplateInstanceCheck *)
(* returned, smoketest.go:157-162; the arguments are evaluated here.          *)
DefersAfterLaunch(stack, keep, secretRef, tiRef) ==
    IF keep THEN stack
    ELSE PushDefer(PushDefer(stack, [kind |-> "secret", ref |-> secretRef]),
                   [kind |-> "instance", ref |-> tiRef])

(* Variant: the template delete is deferred whatever keepObjects says. *)
DefersAfterCreateAlways(stack, keep, templateRef) ==
    PushDefer(stack, [kind |-> "template", ref |-> templateRef])

(* smoketest.go:149-151 *)
DefersAfterCreate(stack, keep, templateRef) ==
    IF keep THEN stack
    ELSE PushDefer(stack, [kind |-> "template", ref |-> templateRef])

LogCall(op, kind, name, ok) == Append(log, [op |-> op, kind |-> kind, name |-> name, ok |-> ok])

----------------------------------------------------------------------------
(* Validation inputs, smoketest.go:266-273 and 371-408 *)

(* Go slices: nil and empty differ for reflect.DeepEqual. *)
NilSlice == [isNil |-> TRUE, elems |-> <<>>]
MakeSlice(elems) == [isNil |-> FALSE, elems |-> elems]

(* getDummyTemplateParams; JSON_PARAM is kept as the tokens of its text. *)
getDummyTemplateParams(id) ==
    [ID |-> id, SIMPLE_PARAM |-> "test",
     JSON_PARAM |-> <<"[", "echo", ",", "Hello world", "]">>]

JsonPunctuation == {"[", "]", ","}

RECURSIVE JsonElements(_)
JsonElements(toks) ==
    IF toks = <<>> \/ Head(toks) \in JsonPunctuation
    THEN [ok |-> FALSE, elems |-> <<>>]
    ELSE IF Len(toks) = 1 THEN [ok |-> TRUE, elems |-> <<Head(toks)>>]
    ELSE IF toks[2] # "," THEN [ok |-> FALSE, elems |-> <<>>]
    ELSE LET rest == JsonElements(SubSeq(toks, 3, Len(toks)))
         IN  [ok |-> rest.ok, elems |-> <<Head(toks)>> \o rest.elems]

(* json.Unmarshal of a JSON array of strings into a []string, smoketest.go:389-390 *)
JsonUnmarshal(toks) ==
    IF Len(toks) < 2 \/ toks[1] # "[" \/ toks[Len(toks)] # "]"
    THEN [ok |-> FALSE, value |-> MakeSlice(<<>>)]
    ELSE IF Len(toks) = 2 THEN [ok |-> TRUE, value |-> MakeSlice(<<>>)]
    ELSE LET inner == JsonElements(SubSeq(toks, 2, Len(toks) - 1))
         IN  [ok |-> inner.ok, value |-> MakeSlice(inner.elems)]

(* smoketest.go:381-384 *)
ExpectedData(params) ==
    MakeMap({<<"foo", "bar">>, <<"simpleParam", params.SIMPLE_PARAM>>})

(* What Get of the config map can answer. *)
ConfigMapResults ==
    [found : {FALSE}, data : {NilMap}]
        \cup [found : {TRUE},
              data : {NilMap,
                      MakeMap({<<"foo", "bar">>, <<"simpleParam", "test">>}),
                      MakeMap({<<"foo", "bar">>}),
                      MakeMap({<<"foo", "bar">>, <<"simpleParam", "other">>}),
                      MakeMap({<<"foo", "bar">>, <<"simpleParam", "test">>, <<"extra", "x">>})}]

ArgLists ==
    {NilSlice, MakeSlice(<<>>), MakeSlice(<<"echo", "Hello world">>),
     MakeSlice(<<"Hello world", "echo">>), MakeSlice(<<"echo">>)}

(* What Get of the job can answer: the argument list of each container. *)
JobResults ==
    [found : {FALSE}, containers : {<<>>}]
        \cup [found : {TRUE}, containers : {<<>>} \cup {<<a>> : a \in ArgLists}]

NotFetched == [found |-> FALSE]

(* Variant: different labels are let through. *)
LabelsOutcomeAlwaysOk(templateLabels, instanceLabels) == NoErr

(* smoketest.go:372-375 *)
LabelsOutcome(templateLabels, instanceLabels) ==
    IF ~DeepEqual(templateLabels, instanceLabels) THEN ErrInstanceInvalid ELSE NoErr

(* Variant: a config map that cannot be fetched counts as a validation failure. *)
ConfigMapOutcomeInvalid(configMap, params) ==
    IF ~configMap.found THEN ErrInstanceInvalid
    ELSE IF ~DeepEqual(ExpectedData(params), configMap.data) THEN ErrInstanceInvalid
    ELSE IF ~JsonUnmarshal(params.JSON_PARAM).ok THEN ErrUnknown
    ELSE NoErr

(* smoketest.go:377-394, given what Get of the config map answered *)
ConfigMapOutcome(configMap, params) ==
    IF ~configMap.found THEN ErrLaunchInstanceFailed
    ELSE IF ~DeepEqual(ExpectedData(params), configMap.data) THEN ErrInstanceInvalid
    ELSE IF ~JsonUnmarshal(params.JSON_PARAM).ok THEN ErrUnknown
    ELSE NoErr

(* Variant: the arguments are compared as sets. *)
JobOutcomeUnordered(job, params) ==
    IF ~job.found THEN ErrLaunchInstanceFailed
    ELSE IF job.containers = <<>> THEN "panic"
    ELSE IF {JsonUnmarshal(params.JSON_PARAM).value.elems[i] :
                i \in 1..Len(JsonUnmarshal(params.JSON_PARAM).value.elems)}
            # {job.containers[1].elems[i] : i \in 1..Len(job.containers[1].elems)}
    THEN ErrInstanceInvalid
    ELSE NoErr

(* smoketest.go:396-407, given what Get of the job answered; indexing an *)
(* empty container list panics.                                          *)
JobOutcome(job, params) ==
    IF ~job.found THEN ErrLaunchInstanceFailed
    ELSE IF job.containers = <<>> THEN "panic"
    ELSE IF ~DeepEqual(JsonUnmarshal(params.JSON_PARAM).value, job.containers[1])
    THEN ErrInstanceInvalid
    ELSE NoErr

NoDelete == [called |-> FALSE, ref |-> NilRef, existed |-> FALSE, err |-> NoErr]

NoCheck ==
    [called |-> FALSE, templateLabels |-> NilMap, instanceLabels |-> NilMap,
     configMap |-> NotFetched, job |-> NotFetched, err |-> NoErr]

Check(configMap, job, e) ==
    [called |-> TRUE, templateLabels |-> fetched, instanceLabels |-> ti.labels,
     configMap |-> configMap, job |-> job, err |-> e]

----------------------------------------------------------------------------
(* The early return statements of launchTemplateInstanceCheck *)

LaunchResult(tiVal, secretRef, dur, e) ==
    [ti |-> tiVal, secret |-> secretRef, duration |-> dur, err |-> e]

(* Variant: the failure of the re-fetch is reported as an instance failure. *)
ReturnOnGetFailureAsInstance(dur) ==
    LaunchResult(NilInstance, NilRef, dur, ErrCreateInstance)

(* smoketest.go:282-285 *)
ReturnOnGetFailure(dur) ==
    LaunchResult(NilInstance, NilRef, dur, ErrCreateTemplate)

(* Variant: the result of the failed Create is dropped. *)
ReturnOnSecretFailureNil(secretResult, dur) ==
    LaunchResult(NilInstance, NilRef, dur, ErrCreateInstance)

(* smoketest.go:298-301: whatever the failed Create handed back is returned. *)
ReturnOnSecretFailure(secretResult, dur) ==
    LaunchResult(NilInstance, secretResult, dur, ErrCreateInstance)

(* smoketest.go:315-318 *)
ReturnOnInstanceFailure(secretResult, dur) ==
    LaunchResult(NilInstance, secretResult, dur, ErrCreateInstance)

(* Variant: the instance is not handed back when the watch cannot be opened. *)
ReturnOnWatchFailureNil(tiVal, secretResult, dur) ==
    LaunchResult(NilInstance, secretResult, dur, ErrUnknown)

(* smoketest.go:323-326 *)
ReturnOnWatchFailure(tiVal, secretResult, dur) ==
    LaunchResult(tiVal, secretResult, dur, ErrUnknown)

(* Variant: the time is measured from the epoch of the clock. *)
ElapsedSinceZero(n, start) == n

(* time.Now().Sub(launchStart).Seconds(), smoketest.go:332, 337, 363 *)
Elapsed(n, start) == n - start

(* Run called on its own, as the tests call the checks: no monitor goroutine. *)
NoMonitor == [pc |-> "none"]

----------------------------------------------------------------------------
(* Initial state: Run is about to be called with the flag values. *)

Init ==
    /\ pc = "createTemplate"
    /\ keepObjects \in BOOLEAN
    /\ timeout \in 0..MaxTimeout
    /\ now = 0
    /\ objects = {}
    /\ template = NilRef
    /\ secret = NilRef
    /\ ti = NilInstance
    /\ fetched = NilMap
    /\ watcher = "none"
    /\ launchStart = 0
    /\ deadline = 0
    /\ duration = 0
    /\ ret = [duration |-> 0, err |-> NoErr]
    /\ result = [duration |-> 0, err |-> NoErr]
    /\ deferred = <<>>
    /\ log = <<>>
    /\ consumed = NoEvent
    /\ wstate = "NONE"
    /\ readySeen = FALSE
    /\ deleted = NoDelete
    /\ checked = NoCheck
    /\ monitor = NoMonitor

(* A return statement of Run, smoketest.go:154, 165, 168: the operands are *)
(* evaluated, then the deferred calls run.                                 *)
RunReturns(dur, e) ==
    /\ ret' = [duration |-> dur, err |-> e]
    /\ result' = [duration |-> dur, err |-> e]
    /\ pc' = "cleanup"

(* launchTemplateInstanceCheck returns (tiVal, secretRef, dur, e) and Run *)
(* goes on at smoketest.go:156-168.                                       *)
LaunchReturns(tiVal, secretRef, dur, e) ==
    /\ ti' = tiVal
    /\ secret' = secretRef
    /\ duration' = dur
    /\ deferred' = DefersAfterLaunch(deferred, keepObjects, secretRef, tiVal.ref)
    /\ RunReturns(dur, e)

(* The same, for the operands of an early return statement. *)
LaunchReturnsWith(r) == LaunchReturns(r.ti, r.secret, r.duration, r.err)

(* Run, smoketest.go:144-155, with createTemplateCheck, 172-218. *)
CreateTemplate ==
    /\ pc = "createTemplate"
    /\ \E ok \in BOOLEAN, failed \in FailedCreateResults :
        LET res == IF ok THEN TemplateName ELSE failed
        IN  /\ template' = res
            /\ objects' = IF ok THEN objects \cup {TemplateName} ELSE objects
            /\ log' = LogCall("create", "template", res, ok)
            /\ deferred' = DefersAfterCreate(deferred, keepObjects, res)
            /\ IF ok
               THEN pc' = "getTemplate" /\ UNCHANGED <<ret, result>>
               ELSE RunReturns(0, ErrCreateTemplate)
    /\ consumed' = NoEvent
    /\ deleted' = NoDelete
    /\ checked' = checked
    /\ UNCHANGED <<monitor, keepObjects, readySeen, timeout, now, secret, ti, fetched, watcher,
                   launchStart, deadline, duration, wstate>>

(* launchTemplateInstanceCheck, smoketest.go:279-286: the template is fetched again. *)
GetTemplate ==
    /\ pc = "getTemplate"
    /\ \E ok \in BOOLEAN, labels \in LabelSets :
        /\ ok => TemplateName \in objects
        /\ log' = LogCall("get", "template", TemplateName, ok)
        /\ IF ok
           THEN /\ fetched' = labels
                /\ pc' = "createSecret"
                /\ UNCHANGED <<ti, secret, duration, deferred, ret, result>>
           ELSE /\ labels = NilMap
                /\ fetched' = fetched
                /\ LaunchReturnsWith(ReturnOnGetFailure(duration))
    /\ consumed' = NoEvent
    /\ deleted' = NoDelete
    /\ checked' = checked
    /\ UNCHANGED <<monitor, keepObjects, readySeen, timeout, now, objects, template, watcher,
                   launchStart, deadline, wstate>>

(* smoketest.go:287-302 *)
CreateSecret ==
    /\ pc = "createSecret"
    /\ \E ok \in BOOLEAN, failed \in FailedCreateResults :
        LET res == IF ok THEN SecretName ELSE failed
        IN  /\ objects' = IF ok THEN objects \cup {SecretName} ELSE objects
            /\ log' = LogCall("create", "secret", res, ok)
            /\ IF ok
               THEN /\ secret' = res
                    /\ pc' = "createInstance"
                    /\ UNCHANGED <<ti, duration, deferred, ret, result>>
               ELSE LaunchReturnsWith(ReturnOnSecretFailure(res, duration))
    /\ consumed' = NoEvent
    /\ deleted' = NoDelete
    /\ checked' = checked
    /\ UNCHANGED <<monitor, keepObjects, readySeen, timeout, now, template, fetched, watcher,
                   launchStart, deadline, wstate>>

(* smoketest.go:303-319 *)
CreateInstance ==
    /\ pc = "createInstance"
    /\ launchStart' = now
    /\ \E ok \in BOOLEAN, failed \in FailedCreateResults :
        LET res == IF ok THEN InstanceName ELSE failed
        IN  /\ objects' = IF ok THEN objects \cup {InstanceName} ELSE objects
            /\ log' = LogCall("create", "instance", res, ok)
            /\ IF ok
               THEN /\ ti' = [ref |-> res, labels |-> NilMap]
                    /\ pc' = "watch"
                    /\ UNCHANGED <<secret, duration, deferred, ret, result>>
               ELSE LaunchReturnsWith(ReturnOnInstanceFailure(secret, duration))
    /\ consumed' = NoEvent
    /\ deleted' = NoDelete
    /\ checked' = checked
    /\ UNCHANGED <<monitor, keepObjects, readySeen, timeout, now, template, fetched, watcher,
                   deadline, wstate>>

(* smoketest.go:320-328: the subscription is opened and the timer started. *)
OpenWatch ==
    /\ pc = "watch"
    /\ \E ok \in BOOLEAN :
        /\ log' = LogCall("watch", "instance", ti.ref, ok)
        /\ IF ok
           THEN /\ watcher' = "open"
                /\ wstate' = "PENDING"
                /\ deadline' = now + timeout
                /\ pc' = "await"
                /\ UNCHANGED <<ti, secret, duration, deferred, ret, result>>
           ELSE /\ UNCHANGED <<watcher, wstate, deadline>>
                /\ LaunchReturnsWith(ReturnOnWatchFailure(ti, secret, duration))
    /\ consumed' = NoEvent
    /\ deleted' = NoDelete
    /\ checked' = checked
    /\ UNCHANGED <<monitor, keepObjects, readySeen, timeout, now, objects, template, fetched, launchStart>>

(* The timeout case of the select, smoketest.go:331-333; the watcher is left as it is. *)
TimeoutCase ==
    /\ pc = "await"
    /\ TimeoutReady(now, deadline)
    /\ wstate' = "TIMED_OUT"
    /\ LaunchReturns(ti, secret, Elapsed(now, launchStart), ErrLaunchInstanceTimeout)
    /\ consumed' = NoEvent
    /\ deleted' = NoDelete
    /\ checked' = checked
    /\ UNCHANGED <<monitor, keepObjects, readySeen, timeout, now, objects, template, fetched, watcher,
                   launchStart, deadline, log>>

(* The event case of the select, smoketest.go:334-366: one event is received *)
(* from watcher.ResultChan() and handled.                                    *)
ConsumeEvent ==
    /\ pc = "await"
    /\ \E event \in Events :
        LET elapsed == Elapsed(now, launchStart)
            snapshot == [ref |-> ti.ref, labels |-> event.object.labels]
            next == ScanConditions(event.object.conditions)
        IN  /\ consumed' = event
            /\ deleted' = NoDelete
            /\ checked' = checked
            /\ readySeen' = (readySeen \/ CarriesReady(event))
            /\ IF IsModified(event.type)
               THEN CASE next = "READY" ->
                            /\ watcher' = "stopped"
                            /\ wstate' = "READY"
                            /\ ti' = snapshot
                            /\ duration' = elapsed
                            /\ pc' = "validate"
                            /\ UNCHANGED <<secret, deferred, ret, result>>
                      [] next = "INSTANTIATE_FAILED" ->
                            /\ watcher' = "stopped"
                            /\ wstate' = "INSTANTIATE_FAILED"
                            /\ LaunchReturns(snapshot, secret, elapsed, ErrLaunchInstanceFailed)
                      [] OTHER ->
                            /\ ti' = snapshot
                            /\ duration' = elapsed
                            /\ pc' = "await"
                            /\ UNCHANGED <<watcher, wstate, secret, deferred, ret, result>>
               ELSE /\ wstate' = "UNEXPECTED"
                    /\ UNCHANGED watcher
                    /\ LaunchReturns(ti, secret, elapsed, ErrUnknown)
    /\ UNCHANGED <<monitor, keepObjects, timeout, now, objects, template, fetched,
                   launchStart, deadline, log>>

(* validateTemplateInstance, smoketest.go:372-394: labels, then the config map. *)
ValidateConfigMap ==
    /\ pc = "validate"
    /\ LET params == getDummyTemplateParams("ID")
       IN  IF LabelsOutcome(fetched, ti.labels) # NoErr
           THEN /\ log' = log
                /\ checked' = Check(NotFetched, NotFetched, LabelsOutcome(fetched, ti.labels))
                /\ LaunchReturns(ti, secret, duration, LabelsOutcome(fetched, ti.labels))
           ELSE \E configMap \in ConfigMapResults :
                /\ log' = LogCall("get", "configmap", ConfigMapName, configMap.found)
                /\ IF ConfigMapOutcome(configMap, params) # NoErr
                   THEN /\ checked' = Check(configMap, NotFetched, ConfigMapOutcome(configMap, params))
                        /\ LaunchReturns(ti, secret, duration, ConfigMapOutcome(configMap, params))
                   ELSE /\ pc' = "validateJob"
                        /\ checked' = NoCheck
                        /\ UNCHANGED <<ti, secret, duration, deferred, ret, result>>
    /\ consumed' = NoEvent
    /\ deleted' = NoDelete
    /\ UNCHANGED <<monitor, keepObjects, readySeen, timeout, now, objects, template, fetched, watcher,
                   launchStart, deadline, wstate>>

(* validateTemplateInstance, smoketest.go:395-408: the job and its first container. *)
(* A panic makes Run unwind through its deferred calls.  The config map that let   *)
(* the validation get here had the expected data.                                  *)
ValidateJob ==
    /\ pc = "validateJob"
    /\ LET params == getDummyTemplateParams("ID")
           configMap == [found |-> TRUE, data |-> ExpectedData(params)]
       IN  \E job \in JobResults :
            /\ log' = LogCall("get", "job", JobName, job.found)
            /\ checked' = Check(configMap, job, JobOutcome(job, params))
            /\ IF JobOutcome(job, params) = "panic"
               THEN /\ pc' = "panicking"
                    /\ UNCHANGED <<ti, secret, duration, deferred, ret, result>>
               ELSE LaunchReturns(ti, secret, duration, JobOutcome(job, params))
    /\ consumed' = NoEvent
    /\ deleted' = NoDelete
    /\ UNCHANGED <<monitor, keepObjects, readySeen, timeout, now, objects, template, fetched, watcher,
                   launchStart, deadline, wstate>>

(* One deferred call of Run: deleteTemplateInstance, deleteSecret or          *)
(* deleteTemplate, smoketest.go:221-264.  A Delete of a name that does not   *)
(* exist fails; a Delete of an existing object may fail and leave it behind. *)
RunDeferred ==
    /\ pc \in {"cleanup", "panicking"}
    /\ deferred # <<>>
    /\ LET call == Head(deferred)
       IN  IF ~DeleteIssued(call.ref)
           THEN /\ UNCHANGED <<objects, log>>
                /\ deleted' = [called |-> TRUE, ref |-> call.ref, existed |-> FALSE, err |-> NoErr]
                /\ deferred' = AfterDeferred(deferred, NoErr)
                /\ result' = DeferredResult(result, NoErr)
           ELSE \E ok \in BOOLEAN :
                LET delErr == IF ok THEN NoErr ELSE ErrDelete
                IN  /\ ok => call.ref \in objects
                    /\ objects' = IF ok THEN objects \ {call.ref} ELSE objects
                    /\ log' = LogCall("delete", call.kind, call.ref, ok)
                    /\ deleted' = [called |-> TRUE, ref |-> call.ref,
                                   existed |-> call.ref \in objects, err |-> delErr]
                    /\ deferred' = AfterDeferred(deferred, delErr)
                    /\ result' = DeferredResult(result, delErr)
    /\ consumed' = NoEvent
    /\ checked' = checked
    /\ UNCHANGED <<monitor, pc, keepObjects, readySeen, timeout, now, template, secret, ti, fetched,
                   watcher, launchStart, deadline, duration, ret, wstate>>

(* Run hands its results to the caller once no deferred call is left. *)
Return ==
    /\ pc = "cleanup"
    /\ deferred = <<>>
    /\ pc' = "returned"
    /\ consumed' = NoEvent
    /\ deleted' = NoDelete
    /\ checked' = checked
    /\ UNCHANGED <<monitor, keepObjects, readySeen, timeout, now, objects, template, secret, ti, fetched,
                   watcher, launchStart, deadline, duration, ret, result, deferred,
                   log, wstate>>

(* The panic leaves Run once its deferred calls ran; nothing recovers it. *)
Crash ==
    /\ pc = "panicking"
    /\ deferred = <<>>
    /\ pc' = "crashed"
    /\ consumed' = NoEvent
    /\ deleted' = NoDelete
    /\ checked' = checked
    /\ UNCHANGED <<monitor, keepObjects, readySeen, timeout, now, objects, template, secret, ti, fetched,
                   watcher, launchStart, deadline, duration, ret, result, deferred,
                   log, wstate>>

(* Time passes.  The clock is followed up to MaxTime, and further while the *)
(* select waits for a timer that has not expired yet.                       *)
Tick ==
    /\ pc \notin {"returned", "crashed"}
    /\ now < MaxTime \/ (pc = "await" /\ now < deadline)
    /\ now' = now + 1
    /\ consumed' = NoEvent
    /\ deleted' = NoDelete
    /\ checked' = checked
    /\ UNCHANGED <<monitor, pc, keepObjects, readySeen, timeout, objects, template, secret, ti, fetched,
                   watcher, launchStart, deadline, duration, ret, result, deferred,
                   log, wstate>>

Next ==
    \/ CreateTemplate
    \/ GetTemplate
    \/ CreateSecret
    \/ CreateInstance
    \/ OpenWatch
    \/ TimeoutCase
    \/ ConsumeEvent
    \/ ValidateConfigMap
    \/ ValidateJob
    \/ RunDeferred
    \/ Return
    \/ Crash
    \/ Tick

Spec == Init /\ [][Next]_vars

(* Time advances and the select, which picks among its ready cases at random, *)
(* does not pass over a ready timer forever.                                  *)
LiveSpec == Spec /\ WF_vars(Tick) /\ WF_vars(TimeoutCase)

NameOf(kind) ==
    CASE kind = "template" -> TemplateName
      [] kind = "secret" -> SecretName
      [] kind = "instance" -> InstanceName

(* The delete helpers called on their own, as TestDeleteTemplateSmoketest   *)
(* calls deleteTemplate: each with nil or with a reference to its resource, *)
(* against a cluster on which the resource exists or has been deleted.      *)
DeleteInit ==
    /\ pc = "cleanup"
    /\ keepObjects = FALSE
    /\ timeout = 0
    /\ now = 0
    /\ objects \in SUBSET {TemplateName, SecretName, InstanceName}
    /\ template = NilRef
    /\ secret = NilRef
    /\ ti = NilInstance
    /\ fetched = NilMap
    /\ watcher = "none"
    /\ launchStart = 0
    /\ deadline = 0
    /\ duration = 0
    /\ ret = [duration |-> 0, err |-> NoErr]
    /\ result = [duration |-> 0, err |-> NoErr]
    /\ \E refs \in [Kinds -> BOOLEAN] :
        deferred = [i \in 1..3 |->
                      LET kind == <<"instance", "secret", "template">>[i]
                      IN  [kind |-> kind,
                           ref |-> IF refs[kind] THEN NameOf(kind) ELSE NilRef]]
    /\ log = <<>>
    /\ consumed = NoEvent
    /\ wstate = "NONE"
    /\ readySeen = FALSE
    /\ deleted = NoDelete
    /\ checked = NoCheck
    /\ monitor = NoMonitor

DeleteNext ==
    \/ RunDeferred
    \/ Return

DeleteSpec == DeleteInit /\ [][DeleteNext]_vars

----------------------------------------------------------------------------
(* cmd/monitor/monitor.go: the goroutine started by                          *)
(* `go runTemplateSmoketest(...)`, monitor.go:78.  It is the only caller of  *)
(* doSmoketest.  test.Run is taken as one call here: it hands back one of    *)
(* RunResults, or it panics (smoketest.go:401) and the process dies.         *)

MaxRuns == 2
MaxInterval == 1
MonitorHorizon == MaxRuns * MaxInterval + 1

(* The pairs Run can return once `elapsed` seconds passed since doSmoketest *)
(* started: the returns at smoketest.go:154, 284, 300 and 317 carry 0.      *)
RunResults(elapsed) ==
    {r \in [duration : 0..elapsed,
            err : {NoErr, ErrCreateTemplate, ErrCreateInstance, ErrLaunchInstanceFailed,
                   ErrLaunchInstanceTimeout, ErrInstanceInvalid, ErrUnknown}] :
        r.err \in {ErrCreateTemplate, ErrCreateInstance} => r.duration = 0}

(* One gauge of a GaugeVec after Set: the label values and the sample. *)
NoSample == [labels |-> <<>>, value |-> 0]
NoGauges == [testGauge |-> NoSample, launchGauge |-> NoSample, durationGauge |-> NoSample]

(* monitor.go:124-129 *)
LabelValues(err) ==
    IF err # NoErr THEN <<"failure", err>> ELSE <<"success", "">>

(* monitor.go:130-132 *)
publishResult(launchDuration, totalDuration, err, clock) ==
    [testGauge |-> [labels |-> LabelValues(err), value |-> clock],
     launchGauge |-> [labels |-> LabelValues(err), value |-> launchDuration],
     durationGauge |-> [labels |-> LabelValues(err), value |-> totalDuration]]

(* Variant: the loop sleeps before every run, the first one included. *)
SleepsBeforeRunAlways(first) == TRUE

(* monitor.go:99-103 *)
SleepsBeforeRun(first) == ~first

(* Variant: the runs are scheduled at a fixed rate, one interval after the *)
(* previous run started.                                                   *)
WakeTimeFromStart(clock, start, interval) == start + interval

(* time.Sleep(interval), monitor.go:100: the goroutine is not resumed before *)
(* the interval has passed since the call.                                   *)
WakeTime(clock, start, interval) == clock + interval

(* The goroutine at the top of the loop, monitor.go:97-98; started, published, *)
(* slept, finishedAt and ran are history.                                      *)
MonitorStarts(interval) ==
    [pc |-> "loop", interval |-> interval, first |-> TRUE, start |-> 0, wake |-> 0,
     launchDuration |-> 0, totalDuration |-> 0, err |-> NoErr, gauges |-> NoGauges,
     started |-> 0, published |-> 0, slept |-> 0, finishedAt |-> 0, ran |-> FALSE]

runVars == <<pc, keepObjects, timeout, objects, template, secret, ti, fetched,
             watcher, launchStart, deadline, duration, ret, result, deferred, log,
             consumed, wstate, readySeen, deleted, checked>>

MonitorInit ==
    /\ pc = "createTemplate"
    /\ keepObjects = FALSE
    /\ timeout = 0
    /\ now = 0
    /\ objects = {}
    /\ template = NilRef
    /\ secret = NilRef
    /\ ti = NilInstance
    /\ fetched = NilMap
    /\ watcher = "none"
    /\ launchStart = 0
    /\ deadline = 0
    /\ duration = 0
    /\ ret = [duration |-> 0, err |-> NoErr]
    /\ result = [duration |-> 0, err |-> NoErr]
    /\ deferred = <<>>
    /\ log = <<>>
    /\ consumed = NoEvent
    /\ wstate = "NONE"
    /\ readySeen = FALSE
    /\ deleted = NoDelete
    /\ checked = NoCheck
    /\ \E interval \in 0..MaxInterval : monitor = MonitorStarts(interval)

(* runTemplateSmoketest, monitor.go:98-103: sleep, except before the first run. *)
LoopHead ==
    /\ monitor.pc = "loop"
    /\ monitor.started < MaxRuns
    /\ monitor' =
        IF SleepsBeforeRun(monitor.first)
        THEN [monitor EXCEPT !.pc = "sleep",
                             !.wake = WakeTime(now, monitor.start, monitor.interval)]
        ELSE [monitor EXCEPT !.pc = "doSmoketest", !.first = FALSE]
    /\ UNCHANGED <<now, runVars>>

(* time.Sleep returns, monitor.go:100. *)
SleepReturns ==
    /\ monitor.pc = "sleep"
    /\ now >= monitor.wake
    /\ monitor' = [monitor EXCEPT !.pc = "doSmoketest", !.slept = @ + 1]
    /\ UNCHANGED <<now, runVars>>

(* doSmoketest, monitor.go:109-112: the clock is read and the Smoketest built. *)
NewSmoketest ==
    /\ monitor.pc = "doSmoketest"
    /\ \E ok \in BOOLEAN :
        monitor' = [monitor EXCEPT !.pc = IF ok THEN "run" ELSE "initFailed",
                                   !.start = now,
                                   !.launchDuration = 0,
                                   !.totalDuration = 0,
                                   !.err = IF ok THEN NoErr ELSE ErrInitTest,
                                   !.started = @ + 1,
                                   !.ran = FALSE]
    /\ UNCHANGED <<now, runVars>>

(* doSmoketest, monitor.go:113-115. *)
InitFailed ==
    /\ monitor.pc = "initFailed"
    /\ monitor' = [monitor EXCEPT !.pc = "publish",
                                  !.totalDuration = Elapsed(now, monitor.start)]
    /\ UNCHANGED <<now, runVars>>

(* doSmoketest, monitor.go:118-119: test.Run returns, or panics. *)
RunSmoketest ==
    /\ monitor.pc = "run"
    /\ \/ \E r \in RunResults(Elapsed(now, monitor.start)) :
            monitor' = [monitor EXCEPT !.pc = "publish",
                                       !.launchDuration = r.duration,
                                       !.err = r.err,
                                       !.totalDuration = Elapsed(now, monitor.start),
                                       !.ran = TRUE]
       \/ monitor' = [monitor EXCEPT !.pc = "crashed", !.ran = TRUE]
    /\ UNCHANGED <<now, runVars>>

(* publishResult, monitor.go:123-133, and the return of doSmoketest to the loop. *)
PublishResult ==
    /\ monitor.pc = "publish"
    /\ monitor' = [monitor EXCEPT !.pc = "loop",
                                  !.gauges = publishResult(monitor.launchDuration,
                                                           monitor.totalDuration,
                                                           monitor.err, now),
                                  !.published = @ + 1,
                                  !.finishedAt = now]
    /\ UNCHANGED <<now, runVars>>

(* Time passes for the monitor goroutine. *)
MonitorTick ==
    /\ monitor.pc # "crashed"
    /\ now < MonitorHorizon \/ (monitor.pc = "sleep" /\ now < monitor.wake)
    /\ now' = now + 1
    /\ UNCHANGED <<monitor, runVars>>

MonitorNext ==
    \/ LoopHead
    \/ SleepReturns
    \/ NewSmoketest
    \/ InitFailed
    \/ RunSmoketest
    \/ PublishResult
    \/ MonitorTick

MonitorSpec == MonitorInit /\ [][MonitorNext]_vars

TypeOK ==
    /\ pc \in {"createTemplate", "getTemplate", "createSecret", "createInstance",
               "watch", "await", "validate", "validateJob", "cleanup",
               "panicking", "returned", "crashed"}
    /\ watcher \in {"none", "open", "stopped"}
    /\ wstate \in {"NONE", "PENDING", "READY", "INSTANTIATE_FAILED", "TIMED_OUT", "UNEXPECTED"}
    /\ now \in 0..(MaxTime + MaxTimeout)
    /\ objects \subseteq {TemplateName, SecretName, InstanceName}

----------------------------------------------------------------------------
(* Properties *)

Calls(op, kind) == {i \in 1..Len(log) : log[i].op = op /\ log[i].kind = kind}
NumDeletes(kind) == Cardinality(Calls("delete", kind))
CreatedOk(kind) == \E i \in Calls("create", kind) : log[i].ok
FailedCreateGaveObject(kind) ==
    \E i \in Calls("create", kind) : ~log[i].ok /\ log[i].name # "<nil>"
FailedDelete(kind) == \E i \in Calls("delete", kind) : ~log[i].ok
Validated == Calls("get", "configmap") \cup Calls("get", "job") # {}
CleanupRank(kind) ==
    CASE kind = "instance" -> 1 [] kind = "secret" -> 2 [] kind = "template" -> 3

(* C1, as stated: when Run returns with keepObjects=false, every resource the *)
(* run created has had exactly one Delete issued, and a resource it did not   *)
(* create has had none.                                                       *)
C1_DeleteExactlyTheCreated ==
    (pc = "returned" /\ ~keepObjects) =>
        \A kind \in Kinds : NumDeletes(kind) = IF CreatedOk(kind) THEN 1 ELSE 0

(* C1, amended: when Run returns with keepObjects=false, exactly one Delete   *)
(* has been issued for every resource the run created and for a template or  *)
(* secret whose failed Create still handed back an object, and none for any  *)
(* other; an instance whose creation failed gets none.                        *)
C1_DeleteExactlyTheReferenced ==
    (pc = "returned" /\ ~keepObjects) =>
        \A kind \in Kinds :
            NumDeletes(kind) =
                IF CreatedOk(kind) \/ (kind # "instance" /\ FailedCreateGaveObject(kind))
                THEN 1 ELSE 0

(* C1 witness: the secret was created, the instance creation failed, and Run *)
(* returned after deleting the secret and the template only.                 *)
C1_Witness ==
    /\ pc = "returned" /\ ~keepObjects
    /\ CreatedOk("secret") /\ Calls("create", "instance") # {} /\ ~CreatedOk("instance")
    /\ NumDeletes("secret") = 1 /\ NumDeletes("template") = 1 /\ NumDeletes("instance") = 0

(* C2: with keepObjects=false the Deletes are issued in the order instance,  *)
(* secret, template, and only once Run's outcome is fixed (its return        *)
(* statement has been executed, or it is unwinding).                         *)
C2_CleanupInReverseOrder ==
    ~keepObjects =>
        /\ \A i, j \in 1..Len(log) :
            (i < j /\ log[i].op = "delete" /\ log[j].op = "delete")
                => CleanupRank(log[i].kind) < CleanupRank(log[j].kind)
        /\ (\E i \in 1..Len(log) : log[i].op = "delete")
                => pc \in {"cleanup", "returned", "panicking", "crashed"}
        /\ \A i, j \in 1..Len(log) :
            (i < j /\ log[i].op = "delete") => log[j].op = "delete"

(* C2 witness: Run returned after issuing all three Deletes. *)
C2_Witness ==
    /\ pc = "returned" /\ ~keepObjects
    /\ \A kind \in Kinds : NumDeletes(kind) = 1

(* C3: what Run's caller receives is the pair its return statement evaluated, *)
(* whatever the deferred Deletes answered.                                    *)
C3_CleanupKeepsResult ==
    pc = "returned" => result = ret

(* C3 witness: a run that succeeded, with a failed Delete during cleanup, returned no error. *)
C3_Witness ==
    /\ pc = "returned"
    /\ \E kind \in Kinds : FailedDelete(kind)
    /\ result.err = "nil"
    /\ wstate = "READY"

(* C4: a failed instance Delete is followed by the secret and template      *)
(* Deletes, a failed secret Delete by the template Delete.                  *)
C4_FailedDeleteDoesNotStopCleanup ==
    pc = "returned" =>
        /\ FailedDelete("instance") => NumDeletes("secret") = 1 /\ NumDeletes("template") = 1
        /\ FailedDelete("secret") => NumDeletes("template") = 1

(* C4 witness: the instance and secret Deletes failed and the template Delete was issued. *)
C4_Witness ==
    /\ pc = "returned"
    /\ FailedDelete("instance") /\ FailedDelete("secret")
    /\ NumDeletes("template") = 1

(* C5: under LiveSpec a select that is waiting does not wait forever: unless *)
(* a terminal event is received (READY, INSTANTIATE_FAILED, UNEXPECTED) the  *)
(* wait ends in TIMED_OUT with LaunchTemplateInstanceTimeout, also when      *)
(* non-terminal MODIFIED events keep arriving.                               *)
C5_AwaitTerminates ==
    (wstate = "PENDING") ~>
        \/ wstate \in {"READY", "INSTANTIATE_FAILED", "UNEXPECTED"}
        \/ wstate = "TIMED_OUT" /\ pc # "await" /\ ret.err = "LaunchTemplateInstanceTimeout"

(* C5 witness: the wait timed out after a non-terminal MODIFIED event had    *)
(* replaced the instance snapshot.                                           *)
C5_Witness ==
    /\ wstate = "TIMED_OUT"
    /\ ret.err = "LaunchTemplateInstanceTimeout"
    /\ ti.labels # NilMap
    /\ ~readySeen

(* C6, as stated: the subscription is open only while the select waits; once *)
(* the watcher has left PENDING it has been stopped.                         *)
C6_SubscriptionStoppedOnExit ==
    watcher = "open" => (pc = "await" /\ wstate = "PENDING")

FirstIndex(event, type) ==
    LET hits == {i \in 1..Len(event.object.conditions) :
                    /\ event.object.conditions[i].type = type
                    /\ event.object.conditions[i].status = "True"}
    IN  IF hits = {} THEN MaxConds + 2
        ELSE CHOOSE i \in hits : \A j \in hits : i <= j

C8_ValidationOnlyAfterReady ==
    (Validated \/ pc \in {"validate", "validateJob"}) =>
        (readySeen /\ wstate = "READY")

(* C8 witness: Run returned after the job was read. *)
C8_Witness ==
    /\ pc = "returned"
    /\ Calls("get", "job") # {}
    /\ readySeen

(* C9: an event of another type than MODIFIED received in PENDING ends the *)
(* wait in UNEXPECTED with Unknown, whatever conditions its object has,    *)
(* without validation; Run then returns Unknown.                           *)
C9_UnexpectedEventIsUnknown ==
    /\ consumed.type \notin {"none", "MODIFIED"} =>
            /\ wstate = "UNEXPECTED"
            /\ pc = "cleanup"
            /\ ret.err = "Unknown"
            /\ ~Validated
    /\ (wstate = "UNEXPECTED" /\ pc = "returned") =>
            (result.err = "Unknown" /\ ~Validated)

(* C9 witness: an ADDED event whose object has Ready=True was received and the watcher is UNEXPECTED. *)
C9_Witness ==
    /\ consumed.type = "ADDED"
    /\ CarriesReady([consumed EXCEPT !.type = "MODIFIED"])
    /\ wstate = "UNEXPECTED"

(* C10: a MODIFIED event carrying neither Ready=True nor                   *)
(* InstantiateFailure=True leaves the watcher waiting: still PENDING, the  *)
(* subscription open, nothing returned.                                    *)
C10_NonTerminalEventKeepsWaiting ==
    (consumed.type = "MODIFIED" /\ ~CarriesReady(consumed) /\ ~CarriesFailure(consumed)) =>
        /\ pc = "await"
        /\ wstate = "PENDING"
        /\ watcher = "open"
        /\ ret.err = "nil" /\ result.err = "nil"
        /\ log[Len(log)].op = "watch"

(* C10 witness: a MODIFIED event with Ready=False was received and the select waits again. *)
C10_Witness ==
    /\ consumed.type = "MODIFIED"
    /\ ~CarriesReady(consumed) /\ ~CarriesFailure(consumed)
    /\ consumed.object.conditions # <<>>
    /\ pc = "await"

(* C11: when the watch cannot be opened it has been tried once, the watcher  *)
(* never was PENDING (no event received, no timer started), Run returns      *)
(* Unknown with duration 0, and the instance and the secret are handed back: *)
(* with keepObjects=false both get their Delete.                             *)
C11_WatchFailureReturnsAtOnce ==
    (\E i \in Calls("watch", "instance") : ~log[i].ok) =>
        /\ Cardinality(Calls("watch", "instance")) = 1
        /\ wstate = "NONE" /\ watcher = "none" /\ deadline = 0 /\ ~readySeen
        /\ pc \in {"cleanup", "returned"}
        /\ ret = [duration |-> 0, err |-> "Unknown"]
        /\ ti.ref = "smoketest-template-ID-instance"
        /\ secret = "smoketest-template-ID-secret"
        /\ pc = "returned" =>
            /\ result.err = "Unknown"
            /\ ~keepObjects => NumDeletes("instance") = 1 /\ NumDeletes("secret") = 1

(* C11 witness: the watch failed and Run returned after deleting the instance and the secret. *)
C11_Witness ==
    /\ \E i \in Calls("watch", "instance") : ~log[i].ok
    /\ pc = "returned" /\ ~keepObjects
    /\ NumDeletes("instance") = 1 /\ NumDeletes("secret") = 1

(* C12, as stated: a delete helper called with nil, or with a reference to a *)
(* resource that does not exist any more, returns no error.                  *)
C12_DeleteIsIdempotent ==
    (deleted.called /\ (deleted.ref = "<nil>" \/ ~deleted.existed)) =>
        deleted.err = "nil"

NonDeleteCalls == {i \in 1..Len(log) : log[i].op # "delete"}
FailedCalls == {i \in NonDeleteCalls : ~log[i].ok}
FirstFailedCall == CHOOSE i \in FailedCalls : \A j \in FailedCalls : i <= j
TagOfCall(call) ==
    CASE call.op = "create" /\ call.kind = "template" -> "CreateTemplateFailed"
      [] call.op = "get" /\ call.kind = "template" -> "CreateTemplateFailed"
      [] call.op = "create" /\ call.kind \in {"secret", "instance"} -> "CreateTemplateInstanceFailed"
      [] call.op = "watch" -> "Unknown"
      [] call.op = "get" /\ call.kind \in {"configmap", "job"} -> "LaunchTemplateInstanceFailed"
Taxonomy ==
    {"CreateTemplateFailed", "CreateTemplateInstanceFailed", "LaunchTemplateInstanceFailed",
     "LaunchTemplateInstanceTimeout", "ValidateTemplateInstanceFailed", "Unknown"}

(* C13: Run returns no error or one tag of the taxonomy; when a call to the  *)
(* cluster failed the tag is that of the first failed call and only Deletes  *)
(* follow it; a failed template creation gives (0, CreateTemplateFailed)     *)
(* with nothing else attempted, and after a successful one the tag           *)
(* CreateTemplateFailed can only come from the re-fetch.                     *)
C13_FirstFailureDecides ==
    pc = "returned" =>
        /\ result.err \in Taxonomy \cup {"nil"}
        /\ FailedCalls # {} =>
            /\ result.err = TagOfCall(log[FirstFailedCall])
            /\ \A j \in NonDeleteCalls : j <= FirstFailedCall
        /\ (Calls("create", "template") # {} /\ ~CreatedOk("template")) =>
            /\ result = [duration |-> 0, err |-> "CreateTemplateFailed"]
            /\ NonDeleteCalls = {1}
            /\ objects = {}
        /\ (CreatedOk("template") /\ result.err = "CreateTemplateFailed") =>
            \E i \in Calls("get", "template") : ~log[i].ok

(* C13 witness: the re-fetch of the template failed and Run returned CreateTemplateFailed. *)
C13_Witness ==
    /\ pc = "returned"
    /\ CreatedOk("template")
    /\ result.err = "CreateTemplateFailed"
    /\ Len(log) >= 2 /\ log[2].op = "get" /\ ~log[2].ok

GatedLaunch ==
    /\ Calls("create", "secret") # {} => \E i \in Calls("get", "template") : log[i].ok
    /\ Calls("create", "instance") # {} => CreatedOk("secret")
    /\ (pc = "returned" /\ \E i \in Calls("get", "template") : ~log[i].ok) =>
        /\ result.err = "CreateTemplateFailed"
        /\ Calls("create", "secret") = {} /\ Calls("create", "instance") = {}
    /\ (pc = "returned" /\ Calls("create", "secret") # {} /\ ~CreatedOk("secret")) =>
        /\ result.err = "CreateTemplateInstanceFailed"
        /\ Calls("create", "instance") = {}

(* C14, as stated: the launch is gated step by step, and after a failed      *)
(* secret creation the secret reference is handed back and its Delete issued. *)
C14_SecretFailureAlwaysCleansUp ==
    /\ GatedLaunch
    /\ (pc = "returned" /\ Calls("create", "secret") # {} /\ ~CreatedOk("secret")) =>
        /\ secret # "<nil>"
        /\ ~keepObjects => NumDeletes("secret") = 1

(* C14, amended: the launch is gated step by step, and after a failed secret *)
(* creation Run holds whatever the failed Create handed back: its Delete is  *)
(* issued when that is an object, and no secret Delete when it is nil.       *)
C14_SecretFailureHandsBackResult ==
    /\ GatedLaunch
    /\ (pc = "returned" /\ Calls("create", "secret") # {} /\ ~CreatedOk("secret")) =>
        /\ \E i \in Calls("create", "secret") : secret = log[i].name
        /\ ~keepObjects =>
            NumDeletes("secret") = IF FailedCreateGaveObject("secret") THEN 1 ELSE 0

(* C14 witness: the secret creation failed handing back an object, no instance *)
(* was created and Run returned after issuing the secret Delete.              *)
C14_Witness ==
    /\ pc = "returned" /\ ~keepObjects
    /\ FailedCreateGaveObject("secret")
    /\ Calls("create", "instance") = {}
    /\ NumDeletes("secret") = 1
    /\ result.err = "CreateTemplateInstanceFailed"

(* C15: with keepObjects=true no Delete is deferred or issued, and every *)
(* resource the run created exists when Run returns.                     *)
C15_KeepObjectsDeletesNothing ==
    keepObjects =>
        /\ deferred = <<>>
        /\ \A i \in 1..Len(log) : log[i].op # "delete"
        /\ ~deleted.called
        /\ \A i \in 1..Len(log) : (log[i].op = "create" /\ log[i].ok) => log[i].name \in objects

(* C15 witness: Run returned a failure with keepObjects=true and the three resources exist. *)
C15_Witness ==
    /\ keepObjects /\ pc = "returned"
    /\ result.err # "nil"
    /\ Cardinality(objects) = 3

EarlyFailure ==
    /\ FailedCalls # {}
    /\ \/ log[FirstFailedCall].op \in {"create", "watch"}
       \/ log[FirstFailedCall].op = "get" /\ log[FirstFailedCall].kind = "template"

(* C16: the duration Run returns is the launch-phase duration: on a READY    *)
(* outcome it is the time from launch start to the consumption of the Ready  *)
(* event and does not change afterwards, whatever time validation and        *)
(* cleanup take; on a run that fails before the subscription is waited on    *)
(* it is 0.                                                                  *)
C16_DurationIsLaunchPhase ==
    /\ []((pc = "returned" /\ wstate = "READY") => result.duration = duration)
    /\ []((pc = "returned" /\ EarlyFailure) => result.duration = 0)
    /\ [][(wstate # "READY" /\ wstate' = "READY") => duration' = now - launchStart]_vars
    /\ [][wstate = "READY" => (duration' = duration /\ launchStart' = launchStart)]_vars

(* C16 witness: a READY run returned a duration shorter than the time that *)
(* passed since the launch started.                                        *)
C16_Witness ==
    /\ pc = "returned" /\ wstate = "READY"
    /\ now > launchStart + result.duration

CheckedExists(x) == x = [found |-> FALSE] \/ x.found
CheckedDeviates ==
    \/ checked.templateLabels # checked.instanceLabels
    \/ /\ checked.configMap # [found |-> FALSE]
       /\ \/ checked.configMap.data.isNil
          \/ checked.configMap.data.kv # {<<"foo", "bar">>, <<"simpleParam", "test">>}
    \/ /\ checked.job # [found |-> FALSE]
       /\ \/ Len(checked.job.containers) = 0
          \/ checked.job.containers[1].elems # <<"echo", "Hello world">>

(* C17, as stated: when the config map and the job exist, validation returns *)
(* ok exactly when the instance's label set equals the template's, the       *)
(* config map data is exactly {foo: bar, simpleParam: test} and the first    *)
(* container's arguments are <<echo, Hello world>> in this order; every      *)
(* deviation returns ValidateTemplateInstanceFailed.                         *)
C17_ValidationIsExactMatch ==
    (checked.called /\ CheckedExists(checked.configMap) /\ CheckedExists(checked.job)) =>
        checked.err = IF CheckedDeviates THEN "ValidateTemplateInstanceFailed" ELSE "nil"

ValidationMatches ==
    /\ checked.called
    /\ checked.templateLabels = checked.instanceLabels
    /\ checked.configMap =
        [found |-> TRUE,
         data |-> [isNil |-> FALSE, kv |-> {<<"foo", "bar">>, <<"simpleParam", "test">>}]]
    /\ checked.job # [found |-> FALSE]
    /\ checked.job.found
    /\ Len(checked.job.containers) >= 1
    /\ checked.job.containers[1] = [isNil |-> FALSE, elems |-> <<"echo", "Hello world">>]

OnceOnly ==
    {<<"create", "template">>, <<"get", "template">>, <<"create", "secret">>,
     <<"create", "instance">>, <<"watch", "instance">>,
     <<"delete", "template">>, <<"delete", "secret">>, <<"delete", "instance">>}

(* C20: within one run each of template create, template re-fetch, secret *)
(* create, instance create and subscription open is issued at most once,  *)
(* and each Delete at most once, whatever fails.                          *)
C20_EachCallAtMostOnce ==
    \A c \in OnceOnly : Cardinality(Calls(c[1], c[2])) <= 1

(* C20 witness: Run returned after a failed call and a failed Delete, each issued once. *)
C20_Witness ==
    /\ pc = "returned"
    /\ FailedCalls # {}
    /\ \E kind \in {"template", "secret", "instance"} :
        FailedDelete(kind) /\ NumDeletes(kind) = 1

BetweenRuns == monitor.pc \in {"loop", "sleep", "doSmoketest"}

(* C21: runs never overlap: doSmoketest is entered only when every earlier  *)
(* run has returned and published its result, so at most one run is in      *)
(* progress; the first run is entered without a sleep, and every later one  *)
(* after a sleep that ends no earlier than one interval after the previous  *)
(* run finished.                                                            *)
C21_RunsNeverOverlap ==
    /\ [](monitor.started - monitor.published \in {0, 1})
    /\ [](BetweenRuns => monitor.started = monitor.published)
    /\ [][monitor'.started # monitor.started =>
            /\ monitor'.started = monitor.started + 1
            /\ monitor.published = monitor.started
            /\ monitor.slept = monitor.started
            /\ monitor.started > 0 => now >= monitor.finishedAt + monitor.interval]_vars

(* C21 witness: the second run is in progress; the first took time and was *)
(* published, and the second started one interval after it finished.      *)
C21_Witness ==
    /\ monitor.pc = "run"
    /\ monitor.started = 2 /\ monitor.published = 1
    /\ monitor.interval > 0
    /\ monitor.finishedAt > 0
    /\ monitor.start = monitor.finishedAt + monitor.interval

DocumentedReasons ==
    {"InitTestFailed", "CreateTemplateFailed", "CreateTemplateInstanceFailed",
     "LaunchTemplateInstanceFailed", "LaunchTemplateInstanceTimeout",
     "ValidateTemplateInstanceFailed", "Unknown"}

(* C22: each run publishes exactly one result, to the three gauges with the *)
(* same label pair: success with an empty reason exactly when the run       *)
(* returned no error, otherwise failure with the returned tag, one of the   *)
(* seven documented reasons; when initialization fails Run is not called    *)
(* and failure/InitTestFailed is published with launch duration 0.          *)
C22_EveryRunPublishesOnce ==
    /\ (BetweenRuns \/ monitor.pc = "crashed") => monitor.published = monitor.started
    /\ (BetweenRuns /\ monitor.published > 0) =>
        /\ monitor.gauges.launchGauge.labels = monitor.gauges.testGauge.labels
        /\ monitor.gauges.durationGauge.labels = monitor.gauges.testGauge.labels
        /\ monitor.gauges.testGauge.labels =
            IF monitor.err = "nil" THEN <<"success", "">> ELSE <<"failure", monitor.err>>
        /\ monitor.err \in DocumentedReasons \cup {"nil"}
        /\ monitor.err = "InitTestFailed" <=> ~monitor.ran
        /\ ~monitor.ran => monitor.gauges.launchGauge.value = 0

(* C23: once the timeout timer has expired with no terminal event consumed, *)
(* the wait resolves to TIMED_OUT: an event carrying Ready=True or          *)
(* InstantiateFailure=True that is received after, or together with, the    *)
(* expiry never resolves the run to READY or INSTANTIATE_FAILED.            *)
C23_ExpiredTimerWins ==
    [][(pc = "await" /\ wstate = "PENDING" /\ now >= deadline) =>
            wstate' \notin {"READY", "INSTANTIATE_FAILED"}]_vars

(* C24: when the event stream is closed while the watcher is PENDING, the  *)
(* receive yields the empty event, which is not MODIFIED: the wait ends at *)
(* once in UNEXPECTED and Unknown is returned with the time elapsed since  *)
(* the launch, not LaunchTemplateInstanceTimeout.                          *)
C24_ClosedStreamIsUnknown ==
    consumed.type = "" =>
        /\ pc = "cleanup"
        /\ wstate = "UNEXPECTED"
        /\ ret = [duration |-> now - launchStart, err |-> "Unknown"]
        /\ result = ret

(* C24 witness: the empty event was received before the timer expired and *)
(* Unknown is being returned.                                             *)
C24_Witness ==
    /\ consumed.type = ""
    /\ now < deadline
    /\ ret.err = "Unknown"

(* C25: validation always ends with ok or one tag, for every shape of the *)
(* provisioned resources: a job with an empty container list gives        *)
(* ValidateTemplateInstanceFailed and the run is not aborted.             *)
C25_ValidationAlwaysClassified ==
    /\ pc \notin {"panicking", "crashed"}
    /\ checked.called =>
        checked.err \in {"nil", "LaunchTemplateInstanceFailed",
                         "ValidateTemplateInstanceFailed", "Unknown"}
    /\ (checked.called /\ checked.job # [found |-> FALSE] /\ checked.job.found
            /\ checked.job.containers = <<>>) =>
        checked.err = "ValidateTemplateInstanceFailed"

====
